---- MODULE Spec2Model ----
(***************************************************************************)
(* A model of src/tree_cache.rs: TreeCache, the in-memory staging cache of *)
(* the Jellyfish Merkle tree.  The cache's fields are the variables, every *)
(* public method is one action, and the external TreeReader is a fixed     *)
(* store chosen at construction whose reads may fail.                      *)
(***************************************************************************)
EXTENDS Integers, Sequences, FiniteSets, TLC

(* ---------------------------- bounds ----------------------------------- *)
\* largest next_version handed to a constructor
MaxInitVersion == 1
\* put_node / delete_node / set_root_node_key / put_value calls per run
MaxMutations == 2
\* freeze calls per run
MaxFreezes == 2

(* ------------------------- program constants --------------------------- *)
\* types::PRE_GENESIS_VERSION is u64::MAX; it only has to differ from every
\* real version, and is scaled to the 32-bit integers of the model.
PRE_GENESIS_VERSION == 2147483647
\* usize::MAX, scaled to the 32-bit integers of the model
USIZE_MAX == 2147483647

(* ----------------------- maps (HashMap / BTreeMap) --------------------- *)
EmptyMap == << >>
MapInsert(m, k, v) == [x \in (DOMAIN m) \cup {k} |-> IF x = k THEN v ELSE m[x]]
MapRemove(m, k) == [x \in (DOMAIN m) \ {k} |-> m[x]]
MapExtend(m, n) == [x \in (DOMAIN m) \cup (DOMAIN n) |-> IF x \in DOMAIN n THEN n[x] ELSE m[x]]

(* ----------------------------- node keys ------------------------------- *)
EmptyPath == << >>
NodeKey(v, p) == [version |-> v, nibble_path |-> p]
new_empty_path(v) == NodeKey(v, EmptyPath)
set_version(k, v) == [k EXCEPT !.version = v]
\* the keys the callers pass: two root keys and a key below the root
Keys == {new_empty_path(0), new_empty_path(1), NodeKey(0, <<1>>)}
NoKey == NodeKey(-1, EmptyPath)

(* ------------------------------- nodes --------------------------------- *)
Null == "Null"
Leaf == "Leaf"
Internal == "Internal"
None == "None"
InputNodes == {Leaf, Internal}
is_leaf(n) == n = Leaf
\* the digest of a node: the placeholder hash for Null, a digest of the
\* content otherwise
hash(n) == CASE n = Null -> 0 [] n = Leaf -> 11 [] n = Internal -> 12

(* ---------------------------- key hashes, values ----------------------- *)
KeyHashes == {"h1", "h2"}
InputValues == {None, "x"}
\* the versions of the value entries and of the value lookups
ValueVersions == {0, 1, 2}
ValueKey(v, h) == [version |-> v, key_hash |-> h]

(* ------------------------- the external reader ------------------------- *)
\* a store: its nodes, its values, and its rightmost leaf (a key, or NoKey
\* for an empty tree)
Store(ns, vs, rl) == [nodes |-> ns, values |-> vs, rightmost |-> rl]
EmptyStore == Store(EmptyMap, EmptyMap, NoKey)
\* a store with a pre-genesis root and the tree of version 0 on top of it
CommittedStore ==
  Store(MapInsert(MapInsert(MapInsert(EmptyMap, new_empty_path(PRE_GENESIS_VERSION), Leaf),
                            new_empty_path(0), Internal),
                  NodeKey(0, <<1>>), Leaf),
        MapInsert(EmptyMap, ValueKey(0, "h1"), "r"),
        NodeKey(0, <<1>>))
Stores == {EmptyStore, CommittedStore}

\* TreeReader::get_node_option of the store
reader_get_node_option(rd, k) == IF k \in DOMAIN rd.nodes THEN rd.nodes[k] ELSE None
\* TreeReader::get_value_option of the store: the latest value at or below
\* max_version
reader_get_value_option(rd, max_version, key_hash) ==
  LET vs == {vk \in DOMAIN rd.values : vk.key_hash = key_hash /\ vk.version <= max_version}
  IN IF vs = {} THEN None
     ELSE rd.values[CHOOSE vk \in vs : \A o \in vs : o.version <= vk.version]

(* ----------------------------- the cache ------------------------------- *)
FrozenTreeCache_new ==
  [node_cache |-> [nodes |-> EmptyMap, values |-> EmptyMap],
   stale_node_index_cache |-> {},
   node_stats |-> << >>,
   root_hashes |-> << >>]

\* NodeBatch::extend: the drained nodes and values are inserted into the batch
NodeBatch_extend(nb, ns, vs) ==
  [nodes |-> MapExtend(nb.nodes, ns), values |-> MapExtend(nb.values, vs)]

StaleNodeIndex(v, k) == [stale_since_version |-> v, node_key |-> k]
NodeStats(nn, nl, sn, sl) == [new_nodes |-> nn, new_leaves |-> nl, stale_nodes |-> sn, stale_leaves |-> sl]

NotExported == [done |-> FALSE]

VARIABLES
  root_node_key,           \* TreeCache.root_node_key
  next_version,            \* TreeCache.next_version
  node_cache,              \* TreeCache.node_cache
  value_cache,             \* TreeCache.value_cache
  num_new_leaves,          \* TreeCache.num_new_leaves
  stale_node_index_cache,  \* TreeCache.stale_node_index_cache
  num_stale_leaves,        \* TreeCache.num_stale_leaves
  frozen_cache,            \* TreeCache.frozen_cache
  reader,                  \* the store behind TreeCache.reader
  overflow_checks,         \* the build's overflow checks: "on" (an overflow panics), "off" (it
                           \* wraps), "unobserved" while no counter has overflowed yet
  status,                  \* "live", "failed" (no cache was built), "aborted" (panic)
  last,                    \* the last call: its arguments and what it returned
  stale_leaf_keys,         \* history: the staged stale markers passed with is_leaf
  leaf_flags_ok,           \* history: since the last successful freeze every delete_node of
                           \* an overlay key passed that node's own is_leaf()
  exported,                \* what the conversion into (root hashes, batch) returned
  mutations,               \* number of mutating calls so far
  freezes,                 \* number of freeze calls so far
  frozen_times             \* history: number of freeze calls that returned Ok

cachevars == <<root_node_key, next_version, node_cache, value_cache, num_new_leaves,
               stale_node_index_cache, num_stale_leaves, frozen_cache>>
vars == <<root_node_key, next_version, node_cache, value_cache, num_new_leaves,
          stale_node_index_cache, num_stale_leaves, frozen_cache, reader,
          overflow_checks, status, last, stale_leaf_keys, leaf_flags_ok, exported,
          mutations, freezes,
          frozen_times>>

\* the cache as one value
Self ==
  [root_node_key |-> root_node_key, next_version |-> next_version,
   node_cache |-> node_cache, value_cache |-> value_cache,
   num_new_leaves |-> num_new_leaves,
   stale_node_index_cache |-> stale_node_index_cache,
   num_stale_leaves |-> num_stale_leaves, frozen_cache |-> frozen_cache]

Assign(c) ==
  /\ root_node_key' = c.root_node_key
  /\ next_version' = c.next_version
  /\ node_cache' = c.node_cache
  /\ value_cache' = c.value_cache
  /\ num_new_leaves' = c.num_new_leaves
  /\ stale_node_index_cache' = c.stale_node_index_cache
  /\ num_stale_leaves' = c.num_stale_leaves
  /\ frozen_cache' = c.frozen_cache

\* a call record; the fields a call does not use keep these defaults
Call(op) ==
  [op |-> op, key |-> NoKey, node |-> None, is_leaf |-> FALSE, version |-> -1,
   key_hash |-> "", value |-> None, res |-> "Ok", out |-> None, src |-> "",
   err_key |-> NoKey, err_node |-> None, noop |-> FALSE, reader_failed |-> FALSE]

(* ------------------------------- reads --------------------------------- *)
\* get_node_option that looks into the frozen cache before the overlay
get_node_option_frozen_first(c, rd, k, rfail) ==
  IF k \in DOMAIN c.frozen_cache.node_cache.nodes
  THEN [res |-> "Ok", out |-> c.frozen_cache.node_cache.nodes[k], src |-> "frozen_cache"]
  ELSE IF k \in DOMAIN c.node_cache
  THEN [res |-> "Ok", out |-> c.node_cache[k], src |-> "node_cache"]
  ELSE IF rfail
  THEN [res |-> "Err", out |-> None, src |-> "reader"]
  ELSE [res |-> "Ok", out |-> reader_get_node_option(rd, k), src |-> "reader"]

\* TreeCache::get_node_option; rfail: the reader, if it is asked, returns an
\* error.  src names the layer that answered.
get_node_option(c, rd, k, rfail) ==
  IF k \in DOMAIN c.node_cache
  THEN [res |-> "Ok", out |-> c.node_cache[k], src |-> "node_cache"]
  ELSE IF k \in DOMAIN c.frozen_cache.node_cache.nodes
  THEN [res |-> "Ok", out |-> c.frozen_cache.node_cache.nodes[k], src |-> "frozen_cache"]
  ELSE IF rfail
  THEN [res |-> "Err", out |-> None, src |-> "reader"]
  ELSE [res |-> "Ok", out |-> reader_get_node_option(rd, k), src |-> "reader"]

\* TreeReaderExt::get_node of the store: a missing node is an error
reader_get_node(rd, k, rfail) ==
  IF rfail \/ reader_get_node_option(rd, k) = None
  THEN [res |-> "Err", out |-> None, src |-> "reader"]
  ELSE [res |-> "Ok", out |-> reader_get_node_option(rd, k), src |-> "reader"]

\* TreeCache::get_node
get_node(c, rd, k, rfail) ==
  IF k \in DOMAIN c.node_cache
  THEN [res |-> "Ok", out |-> c.node_cache[k], src |-> "node_cache"]
  ELSE IF k \in DOMAIN c.frozen_cache.node_cache.nodes
  THEN [res |-> "Ok", out |-> c.frozen_cache.node_cache.nodes[k], src |-> "frozen_cache"]
  ELSE reader_get_node(rd, k, rfail)

\* TreeReader::get_value_option for TreeCache.  The loop returns the first
\* entry of value_cache, in the map's iteration order, that has the key hash
\* and a version <= max_version: any such entry can be the first.
get_value_option_results(c, rd, max_version, key_hash, rfail) ==
  LET hits == {vk \in DOMAIN c.value_cache : vk.key_hash = key_hash /\ vk.version <= max_version}
  IN IF hits # {}
     THEN {[res |-> "Ok", out |-> c.value_cache[vk], src |-> "value_cache", version |-> vk.version] : vk \in hits}
     ELSE IF rfail
     THEN {[res |-> "Err", out |-> None, src |-> "reader", version |-> -1]}
     ELSE {[res |-> "Ok", out |-> reader_get_value_option(rd, max_version, key_hash),
            src |-> "reader", version |-> -1]}

\* TreeCache::get_root_node_key
get_root_node_key(c) == c.root_node_key

(* ----------------------------- mutations ------------------------------- *)
\* usize += 1 and -= 1: a panic when the build checks overflow, a wrap otherwise
usize_inc(x, oc) ==
  IF x = USIZE_MAX THEN [overflow |-> TRUE, panic |-> oc, val |-> IF oc THEN x ELSE 0]
  ELSE [overflow |-> FALSE, panic |-> FALSE, val |-> x + 1]
usize_dec(x, oc) ==
  IF x = 0 THEN [overflow |-> TRUE, panic |-> oc, val |-> IF oc THEN x ELSE USIZE_MAX]
  ELSE [overflow |-> FALSE, panic |-> FALSE, val |-> x - 1]
usize_same(x) == [overflow |-> FALSE, panic |-> FALSE, val |-> x]

\* put_node as HashMap::insert: an occupied entry is overwritten
put_node_overwrites(c, node_key, new_node, oc) ==
  [ok |-> TRUE, panic |-> FALSE, overflow |-> FALSE,
   cache |-> [c EXCEPT !.node_cache = MapInsert(c.node_cache, node_key, new_node),
                       !.num_new_leaves = IF is_leaf(new_node) /\ c.num_new_leaves < USIZE_MAX
                                          THEN c.num_new_leaves + 1 ELSE c.num_new_leaves],
   err_key |-> NoKey, err_node |-> None]

\* TreeCache::put_node
put_node(c, node_key, new_node, oc) ==
  IF node_key \notin DOMAIN c.node_cache
  THEN LET inc == IF is_leaf(new_node) THEN usize_inc(c.num_new_leaves, oc)
                  ELSE usize_same(c.num_new_leaves)
       IN IF inc.panic
          THEN [ok |-> TRUE, panic |-> TRUE, overflow |-> TRUE, cache |-> c,
                err_key |-> NoKey, err_node |-> None]
          ELSE [ok |-> TRUE, panic |-> FALSE, overflow |-> inc.overflow,
                cache |-> [c EXCEPT !.num_new_leaves = inc.val,
                                    !.node_cache = MapInsert(c.node_cache, node_key, new_node)],
                err_key |-> NoKey, err_node |-> None]
  ELSE [ok |-> FALSE, panic |-> FALSE, overflow |-> FALSE, cache |-> c,
        err_key |-> node_key, err_node |-> new_node]

\* TreeCache::put_value
put_value(c, version, key_hash, value) ==
  [c EXCEPT !.value_cache = MapInsert(c.value_cache, ValueKey(version, key_hash), value)]

\* delete_node that records a stale marker also for a node of the overlay
delete_node_always_stales(c, old_node_key, leaf, oc) ==
  [panic |-> FALSE, overflow |-> FALSE,
   cache |-> [c EXCEPT !.node_cache = MapRemove(c.node_cache, old_node_key),
                       !.stale_node_index_cache = c.stale_node_index_cache \cup {old_node_key}]]

\* delete_node without the assertion on the stale marker being new
delete_node_unasserted(c, old_node_key, leaf, oc) ==
  IF old_node_key \notin DOMAIN c.node_cache
  THEN LET c1 == [c EXCEPT !.stale_node_index_cache = c.stale_node_index_cache \cup {old_node_key}]
           inc == IF leaf THEN usize_inc(c.num_stale_leaves, oc)
                  ELSE usize_same(c.num_stale_leaves)
       IN IF inc.panic THEN [panic |-> TRUE, overflow |-> TRUE, cache |-> c1]
          ELSE [panic |-> FALSE, overflow |-> inc.overflow,
                cache |-> [c1 EXCEPT !.num_stale_leaves = inc.val]]
  ELSE LET c1 == [c EXCEPT !.node_cache = MapRemove(c.node_cache, old_node_key)]
           dec == IF leaf THEN usize_dec(c.num_new_leaves, oc)
                  ELSE usize_same(c.num_new_leaves)
       IN IF dec.panic THEN [panic |-> TRUE, overflow |-> TRUE, cache |-> c1]
          ELSE [panic |-> FALSE, overflow |-> dec.overflow,
                cache |-> [c1 EXCEPT !.num_new_leaves = dec.val]]

\* TreeCache::delete_node
delete_node(c, old_node_key, leaf, oc) ==
  IF old_node_key \notin DOMAIN c.node_cache
  THEN LET is_new_entry == old_node_key \notin c.stale_node_index_cache
           c1 == [c EXCEPT !.stale_node_index_cache = c.stale_node_index_cache \cup {old_node_key}]
           inc == IF leaf THEN usize_inc(c.num_stale_leaves, oc)
                  ELSE usize_same(c.num_stale_leaves)
       IN IF ~is_new_entry THEN [panic |-> TRUE, overflow |-> FALSE, cache |-> c1]
          ELSE IF inc.panic THEN [panic |-> TRUE, overflow |-> TRUE, cache |-> c1]
          ELSE [panic |-> FALSE, overflow |-> inc.overflow,
                cache |-> [c1 EXCEPT !.num_stale_leaves = inc.val]]
  ELSE LET c1 == [c EXCEPT !.node_cache = MapRemove(c.node_cache, old_node_key)]
           dec == IF leaf THEN usize_dec(c.num_new_leaves, oc)
                  ELSE usize_same(c.num_new_leaves)
       IN IF dec.panic THEN [panic |-> TRUE, overflow |-> TRUE, cache |-> c1]
          ELSE [panic |-> FALSE, overflow |-> dec.overflow,
                cache |-> [c1 EXCEPT !.num_new_leaves = dec.val]]

(* ---------------------------- construction ----------------------------- *)
\* the struct literal shared by both constructors
TreeCache(nc, rk, nv) ==
  [root_node_key |-> rk, next_version |-> nv, node_cache |-> nc,
   value_cache |-> EmptyMap, num_new_leaves |-> 0,
   stale_node_index_cache |-> {}, num_stale_leaves |-> 0,
   frozen_cache |-> FrozenTreeCache_new]

\* new that never stages the Null node of the empty tree
TreeCache_new_no_null(rd, nv, rfail) ==
  IF nv = 0
  THEN IF rfail THEN [ok |-> FALSE, cache |-> TreeCache(EmptyMap, NoKey, nv)]
       ELSE IF reader_get_node_option(rd, new_empty_path(PRE_GENESIS_VERSION)) # None
       THEN [ok |-> TRUE, cache |-> TreeCache(EmptyMap, new_empty_path(PRE_GENESIS_VERSION), nv)]
       ELSE [ok |-> TRUE, cache |-> TreeCache(EmptyMap, new_empty_path(0), nv)]
  ELSE [ok |-> TRUE, cache |-> TreeCache(EmptyMap, new_empty_path(nv - 1), nv)]

\* new that points the root at next_version instead of next_version - 1
TreeCache_new_same_version(rd, nv, rfail) ==
  IF nv = 0
  THEN IF rfail THEN [ok |-> FALSE, cache |-> TreeCache(EmptyMap, NoKey, nv)]
       ELSE IF reader_get_node_option(rd, new_empty_path(PRE_GENESIS_VERSION)) # None
       THEN [ok |-> TRUE, cache |-> TreeCache(EmptyMap, new_empty_path(PRE_GENESIS_VERSION), nv)]
       ELSE [ok |-> TRUE,
             cache |-> TreeCache(MapInsert(EmptyMap, new_empty_path(0), Null), new_empty_path(0), nv)]
  ELSE [ok |-> TRUE, cache |-> TreeCache(EmptyMap, new_empty_path(nv), nv)]

\* TreeCache::new; rfail: the reader's get_node_option returns an error
TreeCache_new(rd, nv, rfail) ==
  IF nv = 0
  THEN LET pre_genesis_root_key == new_empty_path(PRE_GENESIS_VERSION)
           pre_genesis_root == reader_get_node_option(rd, pre_genesis_root_key)
       IN IF rfail THEN [ok |-> FALSE, cache |-> TreeCache(EmptyMap, NoKey, nv)]
          ELSE IF pre_genesis_root # None
          THEN [ok |-> TRUE, cache |-> TreeCache(EmptyMap, pre_genesis_root_key, nv)]
          ELSE LET genesis_root_key == new_empty_path(0)
               IN [ok |-> TRUE,
                   cache |-> TreeCache(MapInsert(EmptyMap, genesis_root_key, Null),
                                       genesis_root_key, nv)]
  ELSE [ok |-> TRUE, cache |-> TreeCache(EmptyMap, new_empty_path(nv - 1), nv)]

\* new_overwrite without the check of the rightmost leaf's version
TreeCache_new_overwrite_unchecked(rd, current_version, rfail) ==
  IF rfail \/ rd.rightmost = NoKey
  THEN [ok |-> FALSE, cache |-> TreeCache(EmptyMap, NoKey, current_version)]
  ELSE [ok |-> TRUE, cache |-> TreeCache(EmptyMap, new_empty_path(current_version), current_version)]

\* TreeCache::new_overwrite; rfail: the reader's get_rightmost_leaf returns an error
TreeCache_new_overwrite(rd, current_version, rfail) ==
  IF rfail \/ rd.rightmost = NoKey \/ rd.rightmost.version # current_version
  THEN [ok |-> FALSE, cache |-> TreeCache(EmptyMap, NoKey, current_version)]
  ELSE [ok |-> TRUE, cache |-> TreeCache(EmptyMap, new_empty_path(current_version), current_version)]

Constructed(r, op, rd, nv, rfail) ==
  /\ root_node_key = r.cache.root_node_key
  /\ next_version = r.cache.next_version
  /\ node_cache = r.cache.node_cache
  /\ value_cache = r.cache.value_cache
  /\ num_new_leaves = r.cache.num_new_leaves
  /\ stale_node_index_cache = r.cache.stale_node_index_cache
  /\ num_stale_leaves = r.cache.num_stale_leaves
  /\ frozen_cache = r.cache.frozen_cache
  /\ reader = rd
  /\ overflow_checks = "unobserved"
  /\ status = IF r.ok THEN "live" ELSE "failed"
  /\ last = [Call(op) EXCEPT !.version = nv, !.res = IF r.ok THEN "Ok" ELSE "Err",
                             !.src = "reader", !.reader_failed = rfail]
  /\ stale_leaf_keys = {}
  /\ leaf_flags_ok = TRUE
  /\ exported = NotExported
  /\ mutations = 0
  /\ freezes = 0
  /\ frozen_times = 0

Init ==
  \E rd \in Stores, nv \in 0..MaxInitVersion, rfail \in BOOLEAN :
    \/ /\ rfail => nv = 0
       /\ Constructed(TreeCache_new(rd, nv, rfail), "new", rd, nv, rfail)
    \/ Constructed(TreeCache_new_overwrite(rd, nv, rfail), "new_overwrite", rd, nv, rfail)

(* ------------------------------- freeze -------------------------------- *)
\* the tail of freeze without the reset of the leaf counters
freeze_transfer_keeps_counters(c) ==
  [c EXCEPT
     !.frozen_cache.node_stats =
         Append(c.frozen_cache.node_stats,
                NodeStats(Cardinality(DOMAIN c.node_cache), c.num_new_leaves,
                          Cardinality(c.stale_node_index_cache), c.num_stale_leaves)),
     !.frozen_cache.node_cache = NodeBatch_extend(c.frozen_cache.node_cache, c.node_cache, c.value_cache),
     !.frozen_cache.stale_node_index_cache =
         c.frozen_cache.stale_node_index_cache
           \cup {StaleNodeIndex(c.next_version, k) : k \in c.stale_node_index_cache},
     !.node_cache = EmptyMap,
     !.value_cache = EmptyMap,
     !.stale_node_index_cache = {},
     !.next_version = c.next_version + 1]

\* the tail of freeze that folds the nodes and leaves the staged values behind
freeze_transfer_drops_values(c) ==
  LET node_stats == NodeStats(Cardinality(DOMAIN c.node_cache), c.num_new_leaves,
                              Cardinality(c.stale_node_index_cache), c.num_stale_leaves)
  IN [c EXCEPT
        !.frozen_cache.node_stats = Append(c.frozen_cache.node_stats, node_stats),
        !.frozen_cache.node_cache = NodeBatch_extend(c.frozen_cache.node_cache, c.node_cache, EmptyMap),
        !.frozen_cache.stale_node_index_cache =
            c.frozen_cache.stale_node_index_cache
              \cup {StaleNodeIndex(c.next_version, k) : k \in c.stale_node_index_cache},
        !.node_cache = EmptyMap,
        !.value_cache = EmptyMap,
        !.stale_node_index_cache = {},
        !.num_stale_leaves = 0,
        !.num_new_leaves = 0,
        !.next_version = c.next_version + 1]

\* the tail of freeze that counts the nodes and the stale markers after they
\* were drained
freeze_transfer_counts_drained(c) ==
  LET node_stats == NodeStats(0, c.num_new_leaves, 0, c.num_stale_leaves)
  IN [c EXCEPT
        !.frozen_cache.node_stats = Append(c.frozen_cache.node_stats, node_stats),
        !.frozen_cache.node_cache = NodeBatch_extend(c.frozen_cache.node_cache, c.node_cache, c.value_cache),
        !.frozen_cache.stale_node_index_cache =
            c.frozen_cache.stale_node_index_cache
              \cup {StaleNodeIndex(c.next_version, k) : k \in c.stale_node_index_cache},
        !.node_cache = EmptyMap,
        !.value_cache = EmptyMap,
        !.stale_node_index_cache = {},
        !.num_stale_leaves = 0,
        !.num_new_leaves = 0,
        !.next_version = c.next_version + 1]

\* the tail of freeze: statistics, draining the overlay into the frozen
\* cache, resetting the counters, advancing the version
freeze_transfer(c) ==
  LET node_stats == NodeStats(Cardinality(DOMAIN c.node_cache), c.num_new_leaves,
                              Cardinality(c.stale_node_index_cache), c.num_stale_leaves)
      stale_since_version == c.next_version
  IN [c EXCEPT
        !.frozen_cache.node_stats = Append(c.frozen_cache.node_stats, node_stats),
        !.frozen_cache.node_cache = NodeBatch_extend(c.frozen_cache.node_cache, c.node_cache, c.value_cache),
        !.frozen_cache.stale_node_index_cache =
            c.frozen_cache.stale_node_index_cache
              \cup {StaleNodeIndex(stale_since_version, k) : k \in c.stale_node_index_cache},
        !.node_cache = EmptyMap,
        !.value_cache = EmptyMap,
        !.stale_node_index_cache = {},
        !.num_stale_leaves = 0,
        !.num_new_leaves = 0,
        !.next_version = c.next_version + 1]

\* the no-op guard that stages the copied root under the old root key
freeze_noop_keeps_version(c, rd, rfail2, oc) ==
  IF c.next_version > 0 /\ DOMAIN c.node_cache = {} /\ c.stale_node_index_cache = {}
  THEN LET r2 == get_node_option(c, rd, c.root_node_key, rfail2)
           p == put_node(c, c.root_node_key, r2.out, oc)
       IN IF r2.res = "Err" THEN [res |-> "GetNodeFailed", cache |-> c, noop |-> TRUE]
          ELSE IF r2.out = None THEN [res |-> "RootNodeMissing", cache |-> c, noop |-> TRUE]
          ELSE [res |-> "Ok", cache |-> freeze_transfer(p.cache), noop |-> TRUE]
  ELSE [res |-> "Ok", cache |-> freeze_transfer(c), noop |-> FALSE]

\* the no-op guard of a freeze that also moves the root pointer to the key
\* of the copied root
freeze_noop_moves_root(c, rd, rfail2, oc) ==
  IF c.next_version > 0 /\ DOMAIN c.node_cache = {} /\ c.stale_node_index_cache = {}
  THEN LET r2 == get_node_option(c, rd, c.root_node_key, rfail2)
           k == set_version(c.root_node_key, c.next_version)
           p == put_node(c, k, r2.out, oc)
       IN IF r2.res = "Err" THEN [res |-> "GetNodeFailed", cache |-> c, noop |-> TRUE]
          ELSE IF r2.out = None THEN [res |-> "RootNodeMissing", cache |-> c, noop |-> TRUE]
          ELSE IF ~p.ok THEN [res |-> "PutNodeFailed", cache |-> c, noop |-> TRUE]
          ELSE IF p.panic THEN [res |-> "panic", cache |-> c, noop |-> TRUE]
          ELSE [res |-> "Ok", noop |-> TRUE,
                cache |-> freeze_transfer([p.cache EXCEPT !.root_node_key = k])]
  ELSE [res |-> "Ok", cache |-> freeze_transfer(c), noop |-> FALSE]

\* the no-op guard of a freeze that appends the statistics before it looks
\* the root up again
freeze_noop_stats_first(c, rd, rfail2, oc) ==
  IF c.next_version > 0 /\ DOMAIN c.node_cache = {} /\ c.stale_node_index_cache = {}
  THEN LET r2 == get_node_option(c, rd, c.root_node_key, rfail2)
           p == put_node(c, set_version(c.root_node_key, c.next_version), r2.out, oc)
           c0 == [c EXCEPT !.frozen_cache.node_stats =
                             Append(c.frozen_cache.node_stats, NodeStats(0, 0, 0, 0))]
       IN IF r2.res = "Err" THEN [res |-> "GetNodeFailed", cache |-> c0, noop |-> TRUE]
          ELSE IF r2.out = None THEN [res |-> "RootNodeMissing", cache |-> c0, noop |-> TRUE]
          ELSE IF ~p.ok THEN [res |-> "PutNodeFailed", cache |-> c0, noop |-> TRUE]
          ELSE IF p.panic THEN [res |-> "panic", cache |-> c0, noop |-> TRUE]
          ELSE [res |-> "Ok", cache |-> freeze_transfer(p.cache), noop |-> TRUE]
  ELSE [res |-> "Ok", cache |-> freeze_transfer(c), noop |-> FALSE]

\* the no-op guard without the test of the overlay being empty
freeze_noop_any_overlay(c, rd, rfail2, oc) ==
  IF c.next_version > 0 /\ c.stale_node_index_cache = {}
  THEN LET r2 == get_node_option(c, rd, c.root_node_key, rfail2)
           p == put_node(c, set_version(c.root_node_key, c.next_version), r2.out, oc)
       IN IF r2.res = "Err" THEN [res |-> "GetNodeFailed", cache |-> c, noop |-> TRUE]
          ELSE IF r2.out = None THEN [res |-> "RootNodeMissing", cache |-> c, noop |-> TRUE]
          ELSE IF ~p.ok THEN [res |-> "PutNodeFailed", cache |-> c, noop |-> TRUE]
          ELSE IF p.panic THEN [res |-> "panic", cache |-> c, noop |-> TRUE]
          ELSE [res |-> "Ok", cache |-> freeze_transfer(p.cache), noop |-> TRUE]
  ELSE [res |-> "Ok", cache |-> freeze_transfer(c), noop |-> FALSE]

\* the no-op guard of freeze and what follows it; c already holds this
\* version's root hash
freeze_noop(c, rd, rfail2, oc) ==
  IF c.next_version > 0 /\ DOMAIN c.node_cache = {} /\ c.stale_node_index_cache = {}
  THEN LET r2 == get_node_option(c, rd, c.root_node_key, rfail2)
           p == put_node(c, set_version(c.root_node_key, c.next_version), r2.out, oc)
       IN IF r2.res = "Err" THEN [res |-> "GetNodeFailed", cache |-> c, noop |-> TRUE]
          ELSE IF r2.out = None THEN [res |-> "RootNodeMissing", cache |-> c, noop |-> TRUE]
          ELSE IF ~p.ok THEN [res |-> "PutNodeFailed", cache |-> c, noop |-> TRUE]
          ELSE IF p.panic THEN [res |-> "panic", cache |-> c, noop |-> TRUE]
          ELSE [res |-> "Ok", cache |-> freeze_transfer(p.cache), noop |-> TRUE]
  ELSE [res |-> "Ok", cache |-> freeze_transfer(c), noop |-> FALSE]

\* freeze that takes Null as the root when there is none, without staging it
freeze_no_null_root(c, rd, rfail1, rfail2, oc) ==
  LET r1 == get_node_option(c, rd, c.root_node_key, rfail1)
      root_node == IF r1.out # None THEN r1.out ELSE Null
      c2 == [c EXCEPT !.frozen_cache.root_hashes = Append(c.frozen_cache.root_hashes, hash(root_node))]
      t == freeze_noop(c2, rd, rfail2, oc)
  IN IF r1.res = "Err"
     THEN [res |-> "GetNodeFailed", cache |-> c, out |-> None, src |-> r1.src, noop |-> FALSE]
     ELSE [res |-> t.res, cache |-> t.cache, out |-> r1.out, src |-> r1.src, noop |-> t.noop]

\* TreeCache::freeze; rfail1, rfail2: the reader fails the first, the second
\* lookup of the root (when the lookup reaches the reader).  out is the node
\* the root pointer resolved to, None when there was none.
freeze(c, rd, rfail1, rfail2, oc) ==
  LET r1 == get_node_option(c, rd, c.root_node_key, rfail1)
      p == put_node(c, c.root_node_key, Null, oc)
      root_node == IF r1.out # None THEN r1.out ELSE Null
      c1 == IF r1.out # None THEN c ELSE p.cache
      c2 == [c1 EXCEPT !.frozen_cache.root_hashes = Append(c1.frozen_cache.root_hashes, hash(root_node))]
      t == freeze_noop(c2, rd, rfail2, oc)
  IN IF r1.res = "Err"
     THEN [res |-> "GetNodeFailed", cache |-> c, out |-> None, src |-> r1.src, noop |-> FALSE]
     ELSE IF r1.out = None /\ ~p.ok
     THEN [res |-> "PutNodeFailed", cache |-> c, out |-> None, src |-> r1.src, noop |-> FALSE]
     ELSE [res |-> t.res, cache |-> t.cache, out |-> r1.out, src |-> r1.src, noop |-> t.noop]

\* a conversion that also hands out the nodes still staged in the overlay
from_with_overlay(c) ==
  [done |-> TRUE,
   root_hashes |-> c.frozen_cache.root_hashes,
   batch |-> [node_batch |-> NodeBatch_extend(c.frozen_cache.node_cache, c.node_cache, c.value_cache),
              stale_node_index_batch |-> c.frozen_cache.stale_node_index_cache,
              node_stats |-> c.frozen_cache.node_stats]]

\* impl From<TreeCache> for (Vec<RootHash>, TreeUpdateBatch)
from(c) ==
  [done |-> TRUE,
   root_hashes |-> c.frozen_cache.root_hashes,
   batch |-> [node_batch |-> c.frozen_cache.node_cache,
              stale_node_index_batch |-> c.frozen_cache.stale_node_index_cache,
              node_stats |-> c.frozen_cache.node_stats]]

(* ------------------------------ actions -------------------------------- *)
Live == status = "live"
Frame == UNCHANGED <<reader, exported>>
NoFreeze == UNCHANGED <<freezes, frozen_times>>
\* the builds the run can still be of
Builds == IF overflow_checks = "unobserved" THEN BOOLEAN ELSE {overflow_checks = "on"}
Observe(r, oc) ==
  overflow_checks' = IF r.overflow THEN (IF oc THEN "on" ELSE "off") ELSE overflow_checks
\* the outcomes of a reader lookup of k: FALSE an answer, TRUE an error
ReaderFails(k) ==
  IF k \in DOMAIN node_cache \/ k \in DOMAIN frozen_cache.node_cache.nodes
  THEN {FALSE} ELSE BOOLEAN

PutNode ==
  /\ Live /\ mutations < MaxMutations
  /\ \E k \in Keys, n \in InputNodes, oc \in Builds :
       LET r == put_node(Self, k, n, oc)
       IN /\ Assign(r.cache)
          /\ Observe(r, oc)
          /\ status' = IF r.panic THEN "aborted" ELSE status
          /\ last' = [Call("put_node") EXCEPT !.key = k, !.node = n,
                        !.res = IF r.panic THEN "panic" ELSE IF r.ok THEN "Ok" ELSE "NodeAlreadyExists",
                        !.err_key = r.err_key, !.err_node = r.err_node]
  /\ mutations' = mutations + 1
  /\ UNCHANGED <<stale_leaf_keys, leaf_flags_ok>>
  /\ NoFreeze /\ Frame

DeleteNode ==
  /\ Live /\ mutations < MaxMutations
  /\ \E k \in Keys, leaf \in BOOLEAN, oc \in Builds :
       LET r == delete_node(Self, k, leaf, oc)
       IN /\ Assign(r.cache)
          /\ Observe(r, oc)
          /\ status' = IF r.panic THEN "aborted" ELSE status
          /\ last' = [Call("delete_node") EXCEPT !.key = k, !.is_leaf = leaf,
                        !.res = IF r.panic THEN "panic" ELSE "Ok",
                        !.src = IF k \in DOMAIN node_cache THEN "node_cache" ELSE "stale"]
          /\ stale_leaf_keys' = IF ~r.panic /\ leaf /\ k \notin DOMAIN node_cache
                                THEN stale_leaf_keys \cup {k} ELSE stale_leaf_keys
          /\ leaf_flags_ok' = (leaf_flags_ok /\ (k \in DOMAIN node_cache => leaf = is_leaf(node_cache[k])))
  /\ mutations' = mutations + 1
  /\ NoFreeze /\ Frame

SetRootNodeKey ==
  /\ Live /\ mutations < MaxMutations
  /\ \E k \in Keys :
       /\ root_node_key' = k
       /\ last' = [Call("set_root_node_key") EXCEPT !.key = k]
  /\ mutations' = mutations + 1
  /\ UNCHANGED <<next_version, node_cache, value_cache, num_new_leaves, stale_node_index_cache,
                 num_stale_leaves, frozen_cache, status, stale_leaf_keys, leaf_flags_ok,
                 overflow_checks>>
  /\ NoFreeze /\ Frame

PutValue ==
  /\ Live /\ mutations < MaxMutations
  /\ \E v \in ValueVersions, h \in KeyHashes, x \in InputValues :
       /\ Assign(put_value(Self, v, h, x))
       /\ last' = [Call("put_value") EXCEPT !.version = v, !.key_hash = h, !.value = x]
  /\ mutations' = mutations + 1
  /\ UNCHANGED <<status, stale_leaf_keys, leaf_flags_ok, overflow_checks>>
  /\ NoFreeze /\ Frame

\* A counter can overflow inside freeze only at usize::MAX, which it reaches
\* only after a wrap, that is in a build observed to be "off".
Freeze ==
  /\ Live /\ freezes < MaxFreezes
  /\ \E rfail1 \in ReaderFails(root_node_key), rfail2 \in ReaderFails(root_node_key) :
       LET r == freeze(Self, reader, rfail1, rfail2, overflow_checks = "on")
       IN /\ Assign(r.cache)
          /\ status' = IF r.res = "panic" THEN "aborted" ELSE status
          /\ last' = [Call("freeze") EXCEPT !.key = root_node_key, !.version = next_version,
                        !.res = r.res, !.out = r.out, !.src = r.src, !.noop = r.noop,
                        !.reader_failed = r.res = "GetNodeFailed"]
          /\ stale_leaf_keys' = IF r.res = "Ok" THEN {} ELSE stale_leaf_keys
          /\ leaf_flags_ok' = (r.res = "Ok" \/ leaf_flags_ok)
          /\ frozen_times' = IF r.res = "Ok" THEN frozen_times + 1 ELSE frozen_times
  /\ freezes' = freezes + 1
  /\ UNCHANGED <<mutations, overflow_checks>>
  /\ Frame

GetNodeOption ==
  /\ Live
  /\ \E k \in Keys \cup {root_node_key} : \E rfail \in ReaderFails(k) :
       LET r == get_node_option(Self, reader, k, rfail)
       IN last' = [Call("get_node_option") EXCEPT !.key = k, !.res = r.res, !.out = r.out,
                     !.src = r.src, !.reader_failed = rfail]
  /\ UNCHANGED <<cachevars, status, stale_leaf_keys, leaf_flags_ok, mutations, overflow_checks>>
  /\ NoFreeze /\ Frame

GetNode ==
  /\ Live
  /\ \E k \in Keys \cup {root_node_key} : \E rfail \in ReaderFails(k) :
       LET r == get_node(Self, reader, k, rfail)
       IN last' = [Call("get_node") EXCEPT !.key = k, !.res = r.res, !.out = r.out,
                     !.src = r.src, !.reader_failed = rfail]
  /\ UNCHANGED <<cachevars, status, stale_leaf_keys, leaf_flags_ok, mutations, overflow_checks>>
  /\ NoFreeze /\ Frame

GetValueOption ==
  /\ Live
  /\ \E mv \in ValueVersions, h \in KeyHashes :
       \E r \in UNION {get_value_option_results(Self, reader, mv, h, rfail) : rfail \in BOOLEAN} :
         last' = [Call("get_value_option") EXCEPT !.version = mv, !.key_hash = h,
                    !.res = r.res, !.out = r.out, !.src = r.src,
                    !.reader_failed = r.res = "Err"]
  /\ UNCHANGED <<cachevars, status, stale_leaf_keys, leaf_flags_ok, mutations, overflow_checks>>
  /\ NoFreeze /\ Frame

Export ==
  /\ Live
  /\ exported' = from(Self)
  /\ status' = "exported"
  /\ last' = Call("from")
  /\ UNCHANGED <<cachevars, reader, overflow_checks, stale_leaf_keys, leaf_flags_ok, mutations>>
  /\ NoFreeze

\* the mutations of the node side of the cache
Next == PutNode \/ DeleteNode \/ SetRootNodeKey \/ Freeze
Spec == Init /\ [][Next]_vars

\* the same, up to the conversion into the batch
NextExport == Next \/ Export
SpecExport == Init /\ [][NextExport]_vars

\* staging, freezing and reading nodes
NextRead == PutNode \/ Freeze \/ GetNodeOption \/ GetNode
SpecRead == Init /\ [][NextRead]_vars

\* the value side of the cache, on a cache built by new(reader, 0)
InitValues == \E rd \in Stores : Constructed(TreeCache_new(rd, 0, FALSE), "new", rd, 0, FALSE)
NextValues == PutValue \/ GetValueOption \/ Freeze
SpecValues == InitValues /\ [][NextValues]_vars

\* staging nodes and values together and folding them, on a cache built by
\* new(reader, 0)
NextStaging == PutNode \/ DeleteNode \/ PutValue \/ Freeze
SpecStaging == InitValues /\ [][NextStaging]_vars

\* every mutation of the cache and freeze, on a cache built by new(reader, 0)
\* over the committed store
InitPointer == Constructed(TreeCache_new(CommittedStore, 0, FALSE), "new", CommittedStore, 0, FALSE)
NextPointer == Next \/ PutValue
SpecPointer == InitPointer /\ [][NextPointer]_vars

(* ============================ properties =============================== *)
\* the step is a call of op that counted as a mutation
MutationStep(op) == mutations' = mutations + 1 /\ last'.op = op
\* the step is a freeze call
FreezeStep == freezes' = freezes + 1 /\ last'.op = "freeze"

\* C1: put_node on a key that is staged in the working overlay returns
\* NodeAlreadyExists carrying that key and the rejected node, and changes
\* nothing: the overlay still maps the key to the first node, and the leaf
\* counters, the stale set and the frozen cache are as before the call.
C1_PutNodeUniqueness ==
  [][(MutationStep("put_node") /\ last'.key \in DOMAIN node_cache)
       => /\ last'.res = "NodeAlreadyExists"
          /\ last'.err_key = last'.key
          /\ last'.err_node = last'.node
          /\ node_cache'[last'.key] = node_cache[last'.key]
          /\ UNCHANGED cachevars]_vars

\* a second put_node on a staged key, with another node, was rejected
C1_Witness ==
  /\ last.op = "put_node" /\ last.res = "NodeAlreadyExists"
  /\ last.key \in DOMAIN node_cache
  /\ node_cache[last.key] # last.err_node
  /\ mutations = 2

\* C2: delete_node on a key of the working overlay removes it, adds no stale
\* marker and leaves the frozen cache alone; delete_node on a key that is not
\* in the overlay adds exactly that key to the stale set; a successful freeze
\* adds to the frozen stale index exactly one new entry per staged marker,
\* tagged with next_version as it was before the freeze.
C2_StaleCorrectness ==
  [][/\ (MutationStep("delete_node") /\ last'.key \in DOMAIN node_cache)
          => /\ last'.key \notin DOMAIN node_cache'
             /\ stale_node_index_cache' = stale_node_index_cache
             /\ frozen_cache' = frozen_cache
     /\ (MutationStep("delete_node") /\ last'.key \notin DOMAIN node_cache /\ last'.res = "Ok")
          => /\ last'.key \notin stale_node_index_cache
             /\ stale_node_index_cache' = stale_node_index_cache \cup {last'.key}
             /\ node_cache' = node_cache
             /\ frozen_cache' = frozen_cache
     /\ (FreezeStep /\ last'.res = "Ok")
          => LET new == {StaleNodeIndex(next_version, k) : k \in stale_node_index_cache}
             IN /\ frozen_cache'.stale_node_index_cache = frozen_cache.stale_node_index_cache \cup new
                /\ new \cap frozen_cache.stale_node_index_cache = {}
                /\ Cardinality(new) = Cardinality(stale_node_index_cache)
                /\ stale_node_index_cache' = {}
                /\ next_version' = next_version + 1]_vars

\* a key outside the overlay was staled and the freeze turned the one marker
\* into the one frozen entry, tagged with the version that was frozen
C2_Witness ==
  /\ last.op = "freeze" /\ last.res = "Ok"
  /\ Cardinality(frozen_cache.stale_node_index_cache) = 1
  /\ \A e \in frozen_cache.stale_node_index_cache : e.stale_since_version = last.version
  /\ mutations = 2

\* the number of leaves among the nodes of the working overlay
StagedLeaves == Cardinality({k \in DOMAIN node_cache : is_leaf(node_cache[k])})

RootNow == get_node_option(Self, reader, root_node_key, FALSE).out
Last(q) == q[Len(q)]

\* C4: a successful freeze at next_version = N > 0 that finds the overlay and
\* the stale set empty and the root present folds a copy of the root node into
\* the frozen cache under the root pointer's key with version N; a lookup of
\* that key then returns a node with the hash of the previous root, that hash
\* is the root hash appended for N, and it equals the root hash appended by
\* the previous call when that call was a successful freeze.
C4_NoopVersionContinuity ==
  [][(FreezeStep /\ last'.res = "Ok" /\ next_version > 0 /\ DOMAIN node_cache = {}
        /\ stale_node_index_cache = {} /\ RootNow # None)
       => LET k == set_version(root_node_key, next_version)
              got == get_node_option(Self', reader, k, FALSE)
          IN /\ k \in DOMAIN frozen_cache'.node_cache.nodes
             /\ frozen_cache'.node_cache.nodes[k] = RootNow
             /\ got.res = "Ok" /\ got.out # None /\ got.src = "frozen_cache"
             /\ hash(got.out) = hash(RootNow)
             /\ Last(frozen_cache'.root_hashes) = hash(RootNow)
             /\ (last.op = "freeze" /\ last.res = "Ok")
                  => /\ Len(frozen_cache.root_hashes) >= 1
                     /\ Last(frozen_cache'.root_hashes) = Last(frozen_cache.root_hashes)]_vars

\* two freezes in a row and nothing else, the second one a no-op freeze at a
\* version above 0 that copied a root read from the store
C4_Witness ==
  /\ mutations = 0 /\ freezes = 2 /\ frozen_times = 2
  /\ last.op = "freeze" /\ last.noop /\ last.version > 0
  /\ last.out = Internal
  /\ set_version(root_node_key, last.version) \in DOMAIN frozen_cache.node_cache.nodes
  /\ Len(frozen_cache.root_hashes) = 2
  /\ frozen_cache.root_hashes[1] = frozen_cache.root_hashes[2]

Qualifying(mv, h) == {vk \in DOMAIN value_cache : vk.key_hash = h /\ vk.version <= mv}

\* C6: get_value_option returns the value of the staged entry of the key hash
\* with the greatest version <= max_version, and asks the reader only when no
\* staged entry of the key hash has a version <= max_version.
C6_ValueOverlayPrecedence ==
  last.op = "get_value_option"
    => LET hits == Qualifying(last.version, last.key_hash)
       IN IF hits # {}
          THEN /\ last.res = "Ok" /\ last.src = "value_cache"
               /\ last.out = value_cache[CHOOSE vk \in hits : \A o \in hits : o.version <= vk.version]
          ELSE last.src = "reader"

PreGenesisRoot == reader_get_node_option(reader, new_empty_path(PRE_GENESIS_VERSION))
\* the cache as new(reader, 0) returned it for a reader without a pre-genesis root
Genesis == last.op = "new" /\ last.res = "Ok" /\ last.version = 0 /\ PreGenesisRoot = None

\* C7: new(reader, 0) on a reader without a pre-genesis root returns a cache
\* whose root pointer is the empty-path key of version 0 and whose overlay
\* holds exactly Null under that key, with num_new_leaves = 0; a
\* get_node_option of the root pointer issued next returns Null from the
\* overlay, not from the reader; a freeze issued next succeeds and records
\* the hash of Null as the first root hash.
C7_GenesisBootstrap ==
  [][Genesis
       => /\ root_node_key = new_empty_path(0)
          /\ node_cache = MapInsert(EmptyMap, new_empty_path(0), Null)
          /\ num_new_leaves = 0
          /\ (last'.op = "get_node_option" /\ last'.key = root_node_key)
               => (last'.res = "Ok" /\ last'.out = Null /\ last'.src = "node_cache")
          /\ FreezeStep
               => (last'.res = "Ok" /\ frozen_cache'.root_hashes = <<hash(Null)>>)]_vars

\* the first call on a cache built by new(reader, 0) without a pre-genesis
\* root was a freeze: it found Null in the overlay and recorded its hash
C7_Witness ==
  /\ PreGenesisRoot = None
  /\ mutations = 0 /\ freezes = 1
  /\ last.op = "freeze" /\ last.res = "Ok" /\ last.version = 0
  /\ last.src = "node_cache" /\ last.out = Null
  /\ frozen_cache.root_hashes = <<hash(Null)>>

\* C8: new(reader, v) with v > 0 sets the root pointer to the empty-path key
\* of version v - 1, new(reader, 0) with a pre-genesis root in the reader sets
\* it to the pre-genesis key; in both cases nothing is staged, next_version
\* is v, the overlays, the stale set and the frozen cache are empty and both
\* leaf counters are 0.
C8_ConstructionRootPointer ==
  (last.op = "new" /\ last.res = "Ok" /\ (last.version > 0 \/ PreGenesisRoot # None))
    => /\ last.version > 0 => root_node_key = new_empty_path(last.version - 1)
       /\ last.version = 0 => root_node_key = new_empty_path(PRE_GENESIS_VERSION)
       /\ next_version = last.version
       /\ DOMAIN node_cache = {} /\ DOMAIN value_cache = {}
       /\ stale_node_index_cache = {}
       /\ frozen_cache = FrozenTreeCache_new
       /\ num_new_leaves = 0 /\ num_stale_leaves = 0

\* a cache built by new(reader, v) with v > 0
C8_Witness ==
  /\ last.op = "new" /\ last.res = "Ok" /\ last.version > 0 /\ Live
  /\ root_node_key.version = last.version - 1

\* C9: new_overwrite(reader, v) fails when the reader has no rightmost leaf
\* (or fails to answer) and when the rightmost leaf's version is not v;
\* otherwise it returns a cache with the root pointer at the empty-path key of
\* version v, next_version = v, nothing staged and an empty frozen cache.
C9_OverwriteConstruction ==
  last.op = "new_overwrite"
    => /\ last.res = "Err"
            <=> (last.reader_failed \/ reader.rightmost = NoKey
                   \/ reader.rightmost.version # last.version)
       /\ last.res = "Err" => status = "failed"
       /\ last.res = "Ok"
            => /\ Live
               /\ root_node_key = new_empty_path(last.version)
               /\ next_version = last.version
               /\ DOMAIN node_cache = {} /\ DOMAIN value_cache = {}
               /\ stale_node_index_cache = {}
               /\ frozen_cache = FrozenTreeCache_new
               /\ num_new_leaves = 0 /\ num_stale_leaves = 0

\* new_overwrite succeeded on a store whose rightmost leaf has the version
C9_Witness ==
  /\ last.op = "new_overwrite" /\ last.res = "Ok" /\ Live
  /\ reader.rightmost.version = next_version

InOverlay(k) == k \in DOMAIN node_cache
InFrozen(k) == k \in DOMAIN frozen_cache.node_cache.nodes

\* C10: get_node_option returns the overlay's node for a staged key, else the
\* frozen cache's node, else the reader's answer, and asks the reader only
\* when the key is in neither; get_node returns the same node whenever
\* get_node_option returns one, and an error exactly when get_node_option
\* returns nothing or the reader fails.
C10_NodeReadPriority ==
  /\ last.op = "get_node_option"
       => /\ InOverlay(last.key)
               => (last.res = "Ok" /\ last.out = node_cache[last.key] /\ last.src = "node_cache")
          /\ (~InOverlay(last.key) /\ InFrozen(last.key))
               => /\ last.res = "Ok" /\ last.src = "frozen_cache"
                  /\ last.out = frozen_cache.node_cache.nodes[last.key]
          /\ (~InOverlay(last.key) /\ ~InFrozen(last.key))
               => /\ last.src = "reader"
                  /\ last.res = "Err" <=> last.reader_failed
                  /\ last.res = "Ok" => last.out = reader_get_node_option(reader, last.key)
          /\ last.src = "reader" => (~InOverlay(last.key) /\ ~InFrozen(last.key))
  /\ last.op = "get_node"
       => LET opt == get_node_option(Self, reader, last.key, last.reader_failed)
          IN /\ (opt.res = "Ok" /\ opt.out # None) => (last.res = "Ok" /\ last.out = opt.out)
             /\ last.res = "Err" <=> (opt.res = "Err" \/ opt.out = None)
             /\ last.src = opt.src

\* a lookup answered by the frozen cache for a key the store holds another
\* node for
C10_Witness ==
  /\ last.op = "get_node_option" /\ last.res = "Ok" /\ last.src = "frozen_cache"
  /\ ~InOverlay(last.key)
  /\ reader_get_node_option(reader, last.key) \notin {None, last.out}

FrozenNodes == frozen_cache.node_cache.nodes
FrozenValues == frozen_cache.node_cache.values

\* C11: a successful freeze increases next_version by exactly 1 and leaves the
\* node overlay, the value overlay and the stale set empty and both leaf
\* counters at 0; every node and every value staged when it was called is in
\* the frozen cache afterwards, and so is the root node the freeze staged
\* itself (Null under the root pointer's key when the root was absent, the
\* copied root under the key of the frozen version in the no-op case); no
\* other step (a failed freeze included) changes next_version.
C11_FreezeTransition ==
  [][/\ (FreezeStep /\ last'.res = "Ok")
          => /\ next_version' = next_version + 1
             /\ DOMAIN node_cache' = {} /\ DOMAIN value_cache' = {}
             /\ stale_node_index_cache' = {}
             /\ num_new_leaves' = 0 /\ num_stale_leaves' = 0
             /\ \A k \in DOMAIN node_cache :
                  k \in DOMAIN FrozenNodes' /\ FrozenNodes'[k] = node_cache[k]
             /\ \A vk \in DOMAIN value_cache :
                  vk \in DOMAIN FrozenValues' /\ FrozenValues'[vk] = value_cache[vk]
             /\ last'.out = None
                  => (root_node_key \in DOMAIN FrozenNodes' /\ FrozenNodes'[root_node_key] = Null)
             /\ last'.noop
                  => LET k == set_version(root_node_key, next_version)
                     IN k \in DOMAIN FrozenNodes' /\ FrozenNodes'[k] = last'.out
     /\ ~(FreezeStep /\ last'.res = "Ok") => next_version' = next_version]_vars

\* a freeze folded a node staged by put_node and a value staged by put_value
C11_Witness ==
  /\ last.op = "freeze" /\ last.res = "Ok" /\ mutations = 2
  /\ next_version = last.version + 1
  /\ \E k \in DOMAIN FrozenNodes : FrozenNodes[k] = Leaf
  /\ \E vk \in DOMAIN FrozenValues : FrozenValues[vk] = "x"
  /\ DOMAIN node_cache = {} /\ DOMAIN value_cache = {}

\* q is p with elements appended at the end
Appended(p, q) == Len(q) >= Len(p) /\ SubSeq(q, 1, Len(p)) = p

\* C12: the frozen cache is append-only: a key a freeze folded a node under
\* maps to that same node after every later put_node, delete_node, put_value
\* and freeze, and so does a value key; frozen stale entries, statistics
\* records and root hashes are never removed or altered, only appended to.
C12_FrozenAppendOnly ==
  [][/\ \A k \in DOMAIN FrozenNodes :
          k \in DOMAIN FrozenNodes' /\ FrozenNodes'[k] = FrozenNodes[k]
     /\ \A vk \in DOMAIN FrozenValues :
          vk \in DOMAIN FrozenValues' /\ FrozenValues'[vk] = FrozenValues[vk]
     /\ frozen_cache.stale_node_index_cache \subseteq frozen_cache'.stale_node_index_cache
     /\ Appended(frozen_cache.node_stats, frozen_cache'.node_stats)
     /\ Appended(frozen_cache.root_hashes, frozen_cache'.root_hashes)]_vars

\* the node a freeze takes as the root: what the root pointer resolves to, or
\* Null when it resolves to nothing
ResolvedRoot == IF RootNow = None THEN Null ELSE RootNow

\* C13: a freeze that finds no node for the root pointer in the overlay, the
\* frozen cache or the reader (the reader answering) succeeds, is not a no-op
\* freeze, appends hash(Null) as the root hash and folds exactly the staged
\* nodes and a Null under the root pointer's key (nothing under the key of
\* the re-materialized root), the Null being counted in new_nodes; and every
\* freeze that appends to the root hashes appends one hash, the hash of the
\* node the root pointer resolved to, or of Null when there was none.
C13_RootAbsentFreeze ==
  [][/\ (FreezeStep /\ RootNow = None /\ ~last'.reader_failed)
          => /\ last'.res = "Ok" /\ last'.out = None /\ ~last'.noop
             /\ frozen_cache'.root_hashes = Append(frozen_cache.root_hashes, hash(Null))
             /\ DOMAIN FrozenNodes' = DOMAIN FrozenNodes \cup DOMAIN node_cache \cup {root_node_key}
             /\ FrozenNodes'[root_node_key] = Null
             /\ Last(frozen_cache'.node_stats).new_nodes = Cardinality(DOMAIN node_cache) + 1
             /\ Last(frozen_cache'.node_stats).new_leaves = num_new_leaves
     /\ (FreezeStep /\ last'.res = "Ok")
          => Len(frozen_cache'.root_hashes) = Len(frozen_cache.root_hashes) + 1
     /\ (FreezeStep /\ frozen_cache'.root_hashes # frozen_cache.root_hashes)
          => frozen_cache'.root_hashes = Append(frozen_cache.root_hashes, hash(ResolvedRoot))]_vars

\* a freeze at a version above 0 with nothing staged found no root: it folded
\* Null under the root pointer's key and nothing else
C13_Witness ==
  /\ last.op = "freeze" /\ last.res = "Ok" /\ last.out = None /\ ~last.noop
  /\ last.version > 0 /\ mutations = 0 /\ freezes = 1
  /\ DOMAIN FrozenNodes = {last.key} /\ FrozenNodes[last.key] = Null
  /\ frozen_cache.root_hashes = <<hash(Null)>>
  /\ frozen_cache.node_stats = <<NodeStats(1, 0, 0, 0)>>

FoldedNodes == Cardinality(DOMAIN node_cache) + (IF last'.out = None \/ last'.noop THEN 1 ELSE 0)
FoldedLeaves == StagedLeaves + (IF last'.noop /\ is_leaf(last'.out) THEN 1 ELSE 0)
\* the record the step appended counts what the step folded and drained
StatsOfStep ==
  LET st == Last(frozen_cache'.node_stats)
  IN /\ frozen_cache'.node_stats = Append(frozen_cache.node_stats, st)
     /\ st.new_nodes = FoldedNodes
     /\ st.stale_nodes = Cardinality(frozen_cache'.stale_node_index_cache
                                       \ frozen_cache.stale_node_index_cache)
     /\ st.stale_nodes = Cardinality(stale_node_index_cache)
     /\ st.new_leaves = IF last'.noop /\ is_leaf(last'.out)
                         THEN usize_inc(num_new_leaves, FALSE).val ELSE num_new_leaves
     /\ st.stale_leaves = num_stale_leaves
     /\ st.new_leaves <= st.new_nodes
     /\ st.stale_leaves <= st.stale_nodes

FrozenQualifying(mv, h) == {vk \in DOMAIN FrozenValues : vk.key_hash = h /\ vk.version <= mv}

\* C16: a get_value_option(max_version, h) for which the value overlay holds
\* no entry of h with a version <= max_version and the frozen cache holds one
\* returns the frozen value of the greatest such version, and does not ask
\* the reader.
C16_ValueReadsSeeFrozen ==
  (last.op = "get_value_option" /\ Qualifying(last.version, last.key_hash) = {})
    => LET hits == FrozenQualifying(last.version, last.key_hash)
       IN hits # {}
            => /\ last.res = "Ok" /\ last.src # "reader"
               /\ last.out = FrozenValues[CHOOSE vk \in hits : \A o \in hits : o.version <= vk.version]

\* C17: a freeze returns Ok unless the reader failed a lookup of the root
\* pointer's key: it never returns PutNodeFailed or RootNodeMissing and never
\* aborts, and it returns GetNodeFailed only when the lookup had to ask the
\* reader, the key being neither in the overlay nor in the frozen cache.
C17_FreezeSucceeds ==
  [][FreezeStep
       => /\ last'.res \in {"Ok", "GetNodeFailed"}
          /\ ~last'.reader_failed => last'.res = "Ok"
          /\ last'.res = "GetNodeFailed"
               => (~InOverlay(root_node_key) /\ ~InFrozen(root_node_key))]_vars

\* a no-op freeze whose two lookups of the root were answered by the reader
\* with the same node succeeded
C17_Witness ==
  /\ last.op = "freeze" /\ last.res = "Ok" /\ ~last.reader_failed
  /\ last.noop /\ last.src = "reader" /\ last.out # None
  /\ last.out = reader_get_node_option(reader, last.key)

\* the step is a freeze call that returned an error
FreezeErrStep == FreezeStep /\ last'.res \in {"GetNodeFailed", "PutNodeFailed", "RootNodeMissing"}

\* C18: a freeze that returns an error leaves the cache as it was: root
\* hashes, statistics, frozen nodes and stale entries, overlay, leaf counters
\* and next_version; and the root hashes and the statistics records are
\* equally many in every state.
C18_FailedFreezeChangesNothing ==
  [][/\ FreezeErrStep => UNCHANGED cachevars
     /\ Len(frozen_cache'.root_hashes) = Len(frozen_cache'.node_stats)]_vars

\* C18 (amended): a freeze that returns an error leaves the cache as it was,
\* except that one that fails in the no-op case has appended the hash of the
\* root it resolved to the root hashes; the statistics records are as many as
\* the successful freezes, the root hashes at least as many and at most as
\* many as the freeze calls, and equally many while no freeze has failed.
C18_FailedFreezeKeepsAllButRootHash ==
  [][/\ FreezeErrStep
          => /\ UNCHANGED <<root_node_key, next_version, node_cache, value_cache, num_new_leaves,
                            stale_node_index_cache, num_stale_leaves>>
             /\ frozen_cache' = [frozen_cache EXCEPT !.root_hashes =
                                   IF last'.noop THEN Append(@, hash(ResolvedRoot)) ELSE @]
     /\ Len(frozen_cache'.node_stats) = frozen_times'
     /\ Len(frozen_cache'.root_hashes) >= frozen_times'
     /\ Len(frozen_cache'.root_hashes) <= freezes'
     /\ freezes' = frozen_times'
          => Len(frozen_cache'.root_hashes) = Len(frozen_cache'.node_stats)]_vars

\* a no-op freeze failed on its second lookup of the root and left the root
\* hash it had appended
C18_Witness ==
  /\ last.op = "freeze" /\ last.res = "GetNodeFailed" /\ last.noop /\ Live
  /\ Len(frozen_cache.root_hashes) = Len(frozen_cache.node_stats) + 1
  /\ next_version = last.version

\* C19: get_root_node_key returns the same key before and after every freeze
\* call, whatever it returns, also in the no-op and in the root-absent case,
\* and before and after every put_node, delete_node and put_value; after
\* set_root_node_key(k) it returns k; no other step changes the root pointer.
C19_RootPointerFrame ==
  [][/\ FreezeStep => get_root_node_key(Self') = get_root_node_key(Self)
     /\ (MutationStep("put_node") \/ MutationStep("delete_node") \/ MutationStep("put_value"))
          => get_root_node_key(Self') = get_root_node_key(Self)
     /\ MutationStep("set_root_node_key") => get_root_node_key(Self') = last'.key
     /\ get_root_node_key(Self') # get_root_node_key(Self)
          => last'.op = "set_root_node_key"]_vars

\* a no-op freeze copied the root under the key of the frozen version, after
\* set_root_node_key had moved the root pointer, and the pointer stayed
C19_Witness ==
  /\ last.op = "freeze" /\ last.res = "Ok" /\ last.noop
  /\ root_node_key = last.key
  /\ set_version(root_node_key, last.version) # root_node_key
  /\ set_version(root_node_key, last.version) \in DOMAIN FrozenNodes
  /\ root_node_key # new_empty_path(PRE_GENESIS_VERSION)
====
